---- MODULE Spec2Model ----
(***************************************************************************)
(* RepositoryService<T, T_DTO>                                             *)
(* (src/src/commons/repository/repository.service.ts): the generic CRUD    *)
(* base service, together with the table behind its injected typeorm       *)
(* Repository<T>.                                                          *)
(*                                                                         *)
(* Strings are sequences of characters, so that the LIKE pattern the       *)
(* search filter builds can be evaluated.  An optional value (a key that   *)
(* may be missing from an object, an undefined argument, a null result)    *)
(* is a sequence of length 0 or 1.                                         *)
(***************************************************************************)
EXTENDS Integers, Sequences, FiniteSets, TLC

\* Number of distinct well-formed UUIDs (1..MaxUuid).  The identifier 0
\* stands for a string that is not a UUID ("not-a-uuid").
MaxUuid == 2
\* Largest take / skip a caller asks for.
MaxPage == 2

None == <<>>
Some(x) == <<x>>
IsSome(o) == Len(o) = 1
Val(o) == o[1]

Uuids == 1..MaxUuid
Ids == 0..MaxUuid

\* class-validator's isUUID, as get() uses it.
isUUID(uuid) == uuid \in Uuids

---------------------------------------------------------------------------
(* Strings *)

An == <<"A", "n">>
Bo == <<"b", "o">>
Tt == <<"t">>
Names == {An, Bo}
Titles == {Tt}
Fields == {"name", "title"}

\* SQL LOWER on one character and on a string.
LowerChar(c) == CASE c = "A" -> "a" [] c = "N" -> "n" [] c = "O" -> "o" [] OTHER -> c
Lower(s) == [i \in 1..Len(s) |-> LowerChar(s[i])]

\* SQL LIKE: "%" in the pattern matches any run of characters.
RECURSIVE Like(_, _)
Like(s, p) ==
    IF Len(p) = 0 THEN Len(s) = 0
    ELSE IF Head(p) = "%"
         THEN Like(s, Tail(p)) \/ (Len(s) > 0 /\ Like(Tail(s), p))
         ELSE Len(s) > 0 /\ Head(s) = Head(p) /\ Like(Tail(s), Tail(p))

\* s occurs in t as a contiguous run of characters.
Contains(t, s) ==
    \E i \in 0..(Len(t) - Len(s)) : SubSeq(t, i + 1, i + Len(s)) = s

---------------------------------------------------------------------------
(* Errors *)

ValidationMessage == "Por favor, confira os dados preenchidos."

\* new ServiceException({ message, errors })
ServiceException(message, errors) ==
    [type |-> "ServiceException", message |-> message, errors |-> errors]

\* What the overridable hooks, the abstract buildPartial and the
\* persistence layer can raise.
FaultError(fault) ==
    CASE fault = "hookA" -> [type |-> "ServiceException", message |-> "conflict", errors |-> <<>>]
      [] fault = "hookB" -> [type |-> "NotFoundException", message |-> "missing", errors |-> <<>>]
      [] fault = "build" -> [type |-> "Error", message |-> "build", errors |-> <<>>]
      [] fault = "db" -> [type |-> "QueryFailedError", message |-> "db", errors |-> <<>>]

HookFaults == {"hookA", "hookB"}
Faults == {"none", "hookA", "hookB", "build", "db"}
DbFaults == {"none", "db"}

---------------------------------------------------------------------------
(* The table behind Repository<T> *)

\* A stored record: RepositoryEntity's uuid is the key, deleted is its
\* soft-delete mark.
Row(name, title, deleted) == [name |-> name, title |-> title, deleted |-> deleted]
Entity(uuid, row) ==
    [uuid |-> uuid, name |-> row.name, title |-> row.title, deleted |-> row.deleted]

FieldOf(e, field) == IF field = "name" THEN e.name ELSE e.title

\* One entry of a where object: field = value, or the Raw condition
\* LOWER(field) Like LOWER(:value).
Eq(field, value) == [field |-> field, sql |-> "=", value |-> value]
Raw(field, value) ==
    [field |-> field, sql |-> "LOWER(col) Like LOWER(:value)", value |-> value]

Holds(e, cond) ==
    IF cond.sql = "="
    THEN FieldOf(e, cond.field) = cond.value
    ELSE Like(Lower(FieldOf(e, cond.field)), Lower(cond.value))

\* The rows a find sees under a where object: soft-deleted rows are
\* excluded, the conditions are and-ed.
Matching(table, where) ==
    {u \in Uuids : /\ IsSome(table[u])
                   /\ ~Val(table[u]).deleted
                   /\ \A cond \in where : Holds(Entity(u, Val(table[u])), cond)}

\* The uuids of s in increasing order.
RECURSIVE Sorted(_)
Sorted(s) ==
    IF s = {} THEN <<>>
    ELSE LET m == CHOOSE x \in s : \A y \in s : x <= y
         IN <<m>> \o Sorted(s \ {m})

\* Repository.findOneBy({ uuid })
findOneBy(table, uuid) ==
    IF uuid \in Matching(table, {}) THEN Some(Entity(uuid, Val(table[uuid]))) ELSE None

\* Repository.findAndCount(opt): the page and the count of all matching
\* rows.  opt is the options object, or None for undefined.
findAndCount(table, opt) ==
    LET where == IF IsSome(opt) /\ IsSome(Val(opt).where) THEN Val(Val(opt).where) ELSE {}
        all == Sorted(Matching(table, where))
        skip == IF IsSome(opt) /\ IsSome(Val(opt).skip) THEN Val(Val(opt).skip) ELSE 0
        take == IF IsSome(opt) /\ IsSome(Val(opt).take) THEN Val(Val(opt).take) ELSE Len(all)
        page == SubSeq(all, skip + 1, IF skip + take < Len(all) THEN skip + take ELSE Len(all))
    IN [data |-> [i \in 1..Len(page) |-> Entity(page[i], Val(table[page[i]]))],
        total |-> Len(all)]

\* Repository.save(model): insert under a generated uuid when the identity
\* is unset, insert under the given one when no record has it, update
\* otherwise.  Returns the table and the persisted entity.
repositorySave(table, model, gen) ==
    LET uuid == IF IsSome(model.uuid) THEN Val(model.uuid) ELSE gen
        deleted == IF IsSome(table[uuid]) THEN Val(table[uuid]).deleted ELSE FALSE
        row == Row(model.name, model.title, deleted)
    IN [table |-> [table EXCEPT ![uuid] = Some(row)], entity |-> Entity(uuid, row)]

\* Repository.softDelete(uuid): marks the record, returns the row count.
softDelete(table, uuid) ==
    IF uuid \in Uuids /\ IsSome(table[uuid])
    THEN [table |-> [table EXCEPT ![uuid] = Some([Val(table[uuid]) EXCEPT !.deleted = TRUE])],
          affected |-> 1]
    ELSE [table |-> table, affected |-> 0]

---------------------------------------------------------------------------
(* Inputs *)

\* A DTO as the caller sends it.  An empty string violates the DTO class's
\* rule for that field.
Dto(name, title) == [name |-> name, title |-> title]
Dtos == {Dto(n, t) : n \in Names \cup {<<>>}, t \in Titles \cup {<<>>}}

\* DeepPartial<T>: the identity may be unset.
Partial(uuid, name, title) == [uuid |-> uuid, name |-> name, title |-> title]
PartialIds == {None} \cup {Some(u) : u \in Ids}
Models == {Partial(u, n, t) : u \in PartialIds, n \in Names, t \in Titles}

\* PaginatedServiceFilters<T>: every key may be missing.
Options(where, search, searchFields, take, skip) ==
    [where |-> where, search |-> search, searchFields |-> searchFields,
     take |-> take, skip |-> skip]
Searches == {<<>>, <<"a", "n">>, <<"O">>}
SearchFieldLists == {<<>>, <<"name">>, <<"title">>, <<"name", "title">>}
Wheres == {{}, {Eq("name", An)}}
OptionsInputs ==
    {None} \cup
    {Some(Options(w, s, f, t, k)) :
        w \in {None} \cup {Some(x) : x \in Wheres},
        s \in {None} \cup {Some(x) : x \in Searches},
        f \in {None} \cup {Some(x) : x \in SearchFieldLists},
        t \in {None} \cup {Some(x) : x \in 1..MaxPage},
        k \in {None} \cup {Some(x) : x \in 0..(MaxPage - 1)}}

---------------------------------------------------------------------------
(* State *)

VARIABLES
    rows,        \* the table: uuid -> the stored record, or None
    before,      \* the table when the running call started
    op,          \* the operation that ran, "idle" between calls
    arg,         \* its arguments, as the caller passed them, and what the
                 \* hooks, buildPartial and the repository do in this call
    callerOpts,  \* filter: the caller's options object after the call
    calls,       \* the collaborators the call invoked, in order
    built,       \* what buildPartial returned
    saveArg,     \* what the call handed to repository.save
    saveRet,     \* what repository.save resolved to
    query,       \* what the call handed to repository.findAndCount
    prevQuery,   \* the same, for the previous filter with this object
    ret          \* what the call returned to its caller

vars == <<rows, before, op, arg, callerOpts, calls, built, saveArg, saveRet,
          query, prevQuery, ret>>

NoDto == Dto(<<>>, <<>>)
NoModel == Partial(None, <<>>, <<>>)
Args(uuid, dto, opts, model, fault, pid) ==
    [uuid |-> uuid, dto |-> dto, opts |-> opts, model |-> model,
     fault |-> fault, pid |-> pid]
NoArgs == Args(0, NoDto, None, NoModel, "none", None)

Call(fn, id) == [fn |-> fn, id |-> id]

NoRet ==
    [kind |-> "none", entity |-> None, error |-> None, data |-> <<>>,
     total |-> 0, limit |-> None, offset |-> None, affected |-> 0]
Resolved(entity) == [NoRet EXCEPT !.kind = "entity", !.entity = Some(entity)]
Null == [NoRet EXCEPT !.kind = "null"]
Undefined == [NoRet EXCEPT !.kind = "undefined"]
Thrown(error) == [NoRet EXCEPT !.kind = "throw", !.error = Some(error)]
Page(data, total, limit, offset) ==
    [NoRet EXCEPT !.kind = "page", !.data = data, !.total = total,
                  !.limit = limit, !.offset = offset]
Affected(n) == [NoRet EXCEPT !.kind = "affected", !.affected = n]

Init ==
    /\ rows = [u \in Uuids |-> None]
    /\ before = rows
    /\ op = "idle"
    /\ arg = NoArgs
    /\ callerOpts = None
    /\ calls = <<>>
    /\ built = None
    /\ saveArg = None
    /\ saveRet = None
    /\ query = None
    /\ prevQuery = None
    /\ ret = NoRet

---------------------------------------------------------------------------
(* RepositoryService *)

\* class-validator's validate(dto): the fields whose rule is violated.
validate(dto) ==
    (IF Len(dto.name) = 0 THEN <<"name">> ELSE <<>>)
        \o (IF Len(dto.title) = 0 THEN <<"title">> ELSE <<>>)

\* validateDto without the throw: the violations are dropped.
validateDtoNoThrow(json) == [error |-> None, dto |-> json]

validateDto(json) ==
    LET dto == json
        errors == validate(dto)
    IN IF Len(errors) > 0
       THEN [error |-> Some(ServiceException(ValidationMessage, errors)), dto |-> dto]
       ELSE [error |-> None, dto |-> dto]

\* options.searchFields.forEach: options.where[field] = Raw(...)
RECURSIVE assignSearchFields(_, _, _)
assignSearchFields(where, searchFields, search) ==
    IF Len(searchFields) = 0 THEN where
    ELSE LET field == Head(searchFields)
             cond == Raw(field, <<"%">> \o search \o <<"%">>)
         IN assignSearchFields({c \in where : c.field # field} \cup {cond},
                               Tail(searchFields), search)

\* buildOptionsToFilter without "delete options.search".
buildOptionsToFilterKeepSearch(options) ==
    IF /\ IsSome(options)
       /\ IsSome(Val(options).searchFields)
       /\ Len(Val(Val(options).searchFields)) > 0
       /\ IsSome(Val(options).search)
       /\ Len(Val(Val(options).search)) > 0
    THEN Some([Val(options) EXCEPT
                 !.where = Some(assignSearchFields({}, Val(Val(options).searchFields),
                                                   Val(Val(options).search)))])
    ELSE options

\* The options object after the call; the value returned is that same object.
buildOptionsToFilter(options) ==
    IF /\ IsSome(options)
       /\ IsSome(Val(options).searchFields)
       /\ Len(Val(Val(options).searchFields)) > 0
       /\ IsSome(Val(options).search)
       /\ Len(Val(Val(options).search)) > 0
    THEN Some([Val(options) EXCEPT
                 !.where = Some(assignSearchFields({}, Val(Val(options).searchFields),
                                                   Val(Val(options).search))),
                 !.search = None])
    ELSE options

\* The abstract buildPartial: a subclass maps the DTO's fields, may set an
\* identity of its own, and may fail.
buildPartial(dto, fault, pid) ==
    IF fault = "build"
    THEN [error |-> Some(FaultError(fault)), model |-> NoModel]
    ELSE [error |-> None, model |-> Partial(pid, dto.name, dto.title)]

\* The hooks: no-ops here, a subclass's override may fail.
validateBeforeCreate(dto, fault) ==
    IF fault \in HookFaults THEN Some(FaultError(fault)) ELSE None
validateBeforeEdit(uuid, dto, fault) ==
    IF fault \in HookFaults THEN Some(FaultError(fault)) ELSE None

\* this.repository.save(model) on the table, with the failures the
\* persistence layer can answer with; an identity that is not a UUID is one.
persist(table, model, fault, gen) ==
    IF fault = "db" \/ (IsSome(model.uuid) /\ ~isUUID(Val(model.uuid)))
    THEN [table |-> table, entity |-> None, error |-> Some(FaultError("db"))]
    ELSE LET r == repositorySave(table, model, gen)
         IN [table |-> r.table, entity |-> Some(r.entity), error |-> None]

\* gen is the uuid the persistence layer generates for an insert without
\* identity: one no record has.
GenOk(table, model, fault, gen) ==
    IF fault # "db" /\ ~IsSome(model.uuid) THEN ~IsSome(table[gen]) ELSE gen = 1

\* The call settles: what it did and what it returned.
Settle(name, a, cs, b, sa, sr, r, table) ==
    /\ op' = name
    /\ arg' = a
    /\ calls' = cs
    /\ built' = b
    /\ saveArg' = sa
    /\ saveRet' = sr
    /\ ret' = r
    /\ rows' = table
    /\ before' = rows

---------------------------------------------------------------------------
(* The operations *)

\* get(uuid) without the isUUID guard.
GetCallNoGuard(uuid, fault) ==
    LET a == Args(uuid, NoDto, None, NoModel, fault, None)
        cs == <<Call("findOneBy", Some(uuid))>>
        found == findOneBy(rows, uuid)
    IN IF fault = "db"
       THEN Settle("get", a, cs, None, None, None, Thrown(FaultError(fault)), rows)
       ELSE Settle("get", a, cs, None, None, None,
                   IF IsSome(found) THEN Resolved(Val(found)) ELSE Null, rows)

\* get(uuid)
GetCall(uuid, fault) ==
    LET a == Args(uuid, NoDto, None, NoModel, fault, None)
        cs == <<Call("findOneBy", Some(uuid))>>
        found == findOneBy(rows, uuid)
    IN IF ~isUUID(uuid)
       THEN Settle("get", a, <<>>, None, None, None, Null, rows)
       ELSE IF fault = "db"
       THEN Settle("get", a, cs, None, None, None, Thrown(FaultError(fault)), rows)
       ELSE Settle("get", a, cs, None, None, None,
                   IF IsSome(found) THEN Resolved(Val(found)) ELSE Null, rows)

Get ==
    /\ op = "idle"
    /\ \E uuid \in Ids, fault \in DbFaults : GetCall(uuid, fault)
    /\ UNCHANGED <<callerOpts, query, prevQuery>>

\* A response whose limit is the size of the page returned.
PaginatedResponseActual(data, total, opt) ==
    Page(data, total, Some(Len(data)),
         IF IsSome(opt) THEN Val(opt).skip ELSE None)

\* const res: PaginatedResponse<T> = { data, total, limit, offset }
PaginatedResponse(data, total, opt) ==
    Page(data, total,
         IF IsSome(opt) THEN Val(opt).take ELSE None,
         IF IsSome(opt) THEN Val(opt).skip ELSE None)

\* filter(options): opt is the object buildOptionsToFilter returned, which
\* is the caller's.
FilterCall(options, fault) ==
    LET a == Args(0, NoDto, options, NoModel, fault, None)
        cs == <<Call("findAndCount", None)>>
        opt == buildOptionsToFilter(options)
        found == findAndCount(rows, opt)
    IN /\ callerOpts' = opt
       /\ query' = opt
       /\ IF fault = "db"
          THEN Settle("filter", a, cs, None, None, None, Thrown(FaultError(fault)), rows)
          ELSE Settle("filter", a, cs, None, None, None,
                      PaginatedResponse(found.data, found.total, opt), rows)

Filter ==
    /\ op = "idle"
    /\ \E options \in OptionsInputs, fault \in DbFaults : FilterCall(options, fault)
    /\ prevQuery' = None

\* The caller calls filter again with the options object of its last call.
FilterAgain ==
    /\ op = "filter"
    /\ prevQuery = None
    /\ IsSome(arg.opts)
    /\ \E fault \in DbFaults : FilterCall(callerOpts, fault)
    /\ prevQuery' = Some(query)

\* save(model): repository.save(model) is a Promise, and [0] of a Promise
\* is undefined.
SaveCall(model, fault, gen) ==
    LET saved == persist(rows, model, fault, gen)
    IN /\ GenOk(rows, model, fault, gen)
       /\ Settle("save", Args(0, NoDto, None, model, fault, None),
                 <<Call("save", None)>>, None, Some(model), saved.entity,
                 Undefined, saved.table)

Save ==
    /\ op = "idle"
    /\ \E model \in Models, fault \in DbFaults, gen \in Uuids : SaveCall(model, fault, gen)
    /\ UNCHANGED <<callerOpts, query, prevQuery>>

\* create(data) persisting through this.save(model) instead of
\* this.repository.save(model).
CreateCallViaSave(data, fault, pid, gen) ==
    LET a == Args(0, data, None, NoModel, fault, pid)
        v == validateDto(data)
        hook == validateBeforeCreate(v.dto, fault)
        b == buildPartial(v.dto, fault, pid)
        model == b.model
        saved == persist(rows, model, fault, gen)
        c1 == <<Call("validate", None)>>
        c2 == c1 \o <<Call("validateBeforeCreate", None)>>
        c3 == c2 \o <<Call("buildPartial", None)>>
        c4 == c3 \o <<Call("save", None)>>
    IN IF IsSome(v.error)
       THEN gen = 1 /\ Settle("create", a, c1, None, None, None, Thrown(Val(v.error)), rows)
       ELSE IF IsSome(hook)
       THEN gen = 1 /\ Settle("create", a, c2, None, None, None, Thrown(Val(hook)), rows)
       ELSE IF IsSome(b.error)
       THEN gen = 1 /\ Settle("create", a, c3, None, None, None, Thrown(Val(b.error)), rows)
       ELSE /\ GenOk(rows, model, fault, gen)
            /\ Settle("create", a, c4, Some(b.model), Some(model), saved.entity,
                      Undefined, saved.table)

\* create(data)
CreateCall(data, fault, pid, gen) ==
    LET a == Args(0, data, None, NoModel, fault, pid)
        v == validateDto(data)
        hook == validateBeforeCreate(v.dto, fault)
        b == buildPartial(v.dto, fault, pid)
        model == b.model
        saved == persist(rows, model, fault, gen)
        c1 == <<Call("validate", None)>>
        c2 == c1 \o <<Call("validateBeforeCreate", None)>>
        c3 == c2 \o <<Call("buildPartial", None)>>
        c4 == c3 \o <<Call("save", None)>>
    IN IF IsSome(v.error)
       THEN gen = 1 /\ Settle("create", a, c1, None, None, None, Thrown(Val(v.error)), rows)
       ELSE IF IsSome(hook)
       THEN gen = 1 /\ Settle("create", a, c2, None, None, None, Thrown(Val(hook)), rows)
       ELSE IF IsSome(b.error)
       THEN gen = 1 /\ Settle("create", a, c3, None, None, None, Thrown(Val(b.error)), rows)
       ELSE /\ GenOk(rows, model, fault, gen)
            /\ Settle("create", a, c4, Some(b.model), Some(model), saved.entity,
                      IF IsSome(saved.error) THEN Thrown(Val(saved.error))
                      ELSE Resolved(Val(saved.entity)),
                      saved.table)

Create ==
    /\ op = "idle"
    /\ \E data \in Dtos, fault \in Faults, pid \in PartialIds, gen \in Uuids :
           CreateCall(data, fault, pid, gen)
    /\ UNCHANGED <<callerOpts, query, prevQuery>>

\* edit without "model.uuid = uuid".
keepUuid(model, uuid) == model

\* model.uuid = uuid
assignUuid(model, uuid) == [model EXCEPT !.uuid = Some(uuid)]

\* edit(uuid, data) building the partial entity before running the hook.
EditCallBuildFirst(uuid, data, fault, pid) ==
    LET a == Args(uuid, data, None, NoModel, fault, pid)
        v == validateDto(data)
        hook == validateBeforeEdit(uuid, v.dto, fault)
        b == buildPartial(v.dto, fault, pid)
        model == assignUuid(b.model, uuid)
        saved == persist(rows, model, fault, 1)
        c1 == <<Call("validate", None)>>
        c2 == c1 \o <<Call("buildPartial", None)>>
        c3 == c2 \o <<Call("validateBeforeEdit", Some(uuid))>>
        c4 == c3 \o <<Call("save", None)>>
    IN IF IsSome(v.error)
       THEN Settle("edit", a, c1, None, None, None, Thrown(Val(v.error)), rows)
       ELSE IF IsSome(b.error)
       THEN Settle("edit", a, c2, None, None, None, Thrown(Val(b.error)), rows)
       ELSE IF IsSome(hook)
       THEN Settle("edit", a, c3, Some(b.model), None, None, Thrown(Val(hook)), rows)
       ELSE Settle("edit", a, c4, Some(b.model), Some(model), saved.entity,
                   IF IsSome(saved.error) THEN Thrown(Val(saved.error))
                   ELSE Resolved(Val(saved.entity)),
                   saved.table)

\* edit(uuid, data)
EditCall(uuid, data, fault, pid) ==
    LET a == Args(uuid, data, None, NoModel, fault, pid)
        v == validateDto(data)
        hook == validateBeforeEdit(uuid, v.dto, fault)
        b == buildPartial(v.dto, fault, pid)
        model == assignUuid(b.model, uuid)
        saved == persist(rows, model, fault, 1)
        c1 == <<Call("validate", None)>>
        c2 == c1 \o <<Call("validateBeforeEdit", Some(uuid))>>
        c3 == c2 \o <<Call("buildPartial", None)>>
        c4 == c3 \o <<Call("save", None)>>
    IN IF IsSome(v.error)
       THEN Settle("edit", a, c1, None, None, None, Thrown(Val(v.error)), rows)
       ELSE IF IsSome(hook)
       THEN Settle("edit", a, c2, None, None, None, Thrown(Val(hook)), rows)
       ELSE IF IsSome(b.error)
       THEN Settle("edit", a, c3, None, None, None, Thrown(Val(b.error)), rows)
       ELSE Settle("edit", a, c4, Some(b.model), Some(model), saved.entity,
                   IF IsSome(saved.error) THEN Thrown(Val(saved.error))
                   ELSE Resolved(Val(saved.entity)),
                   saved.table)

Edit ==
    /\ op = "idle"
    /\ \E uuid \in Ids, data \in Dtos, fault \in Faults, pid \in PartialIds :
           EditCall(uuid, data, fault, pid)
    /\ UNCHANGED <<callerOpts, query, prevQuery>>

\* remove(uuid) through repository.delete: the record is erased.
RemoveCallHard(uuid, fault) ==
    LET a == Args(uuid, NoDto, None, NoModel, fault, None)
        cs == <<Call("softDelete", Some(uuid))>>
        result == softDelete(rows, uuid)
    IN IF fault = "db"
       THEN Settle("remove", a, cs, None, None, None, Thrown(FaultError(fault)), rows)
       ELSE Settle("remove", a, cs, None, None, None, Affected(result.affected),
                   IF isUUID(uuid) THEN [rows EXCEPT ![uuid] = None] ELSE rows)

\* remove(uuid)
RemoveCall(uuid, fault) ==
    LET a == Args(uuid, NoDto, None, NoModel, fault, None)
        cs == <<Call("softDelete", Some(uuid))>>
        result == softDelete(rows, uuid)
    IN IF fault = "db"
       THEN Settle("remove", a, cs, None, None, None, Thrown(FaultError(fault)), rows)
       ELSE Settle("remove", a, cs, None, None, None, Affected(result.affected),
                   result.table)

Remove ==
    /\ op = "idle"
    /\ \E uuid \in Ids, fault \in DbFaults : RemoveCall(uuid, fault)
    /\ UNCHANGED <<callerOpts, query, prevQuery>>

\* The caller has its answer; the service keeps nothing of the call.
Respond ==
    /\ op # "idle"
    /\ op' = "idle"
    /\ arg' = NoArgs
    /\ callerOpts' = None
    /\ calls' = <<>>
    /\ built' = None
    /\ saveArg' = None
    /\ saveRet' = None
    /\ query' = None
    /\ prevQuery' = None
    /\ ret' = NoRet
    /\ before' = rows
    /\ UNCHANGED rows

Next ==
    \/ Get
    \/ Filter
    \/ FilterAgain
    \/ Save
    \/ Create
    \/ Edit
    \/ Remove
    \/ Respond

Spec == Init /\ [][Next]_vars

---------------------------------------------------------------------------
(* Properties *)

Valid(dto) == Len(validate(dto)) = 0
Count(fn) == Cardinality({i \in 1..Len(calls) : calls[i].fn = fn})
PersistenceCalls == {"save", "findOneBy", "findAndCount", "softDelete"}
NoPersistenceCall == \A i \in 1..Len(calls) : calls[i].fn \notin PersistenceCalls
Stored(table) == {u \in Uuids : IsSome(table[u])}
IsPrefix(s, t) == Len(s) <= Len(t) /\ s = SubSeq(t, 1, Len(s))
Range(f) == {f[i] : i \in DOMAIN f}

\* C1: a create or edit whose DTO has at least one violation fails with the
\* ServiceException carrying the user-facing message and the violations,
\* makes no call to the persistence layer, and leaves the stored records as
\* they were.
C1_InvalidDtoRejected ==
    (op \in {"create", "edit"} /\ ~Valid(arg.dto)) =>
        /\ ret = Thrown(ServiceException(ValidationMessage, validate(arg.dto)))
        /\ NoPersistenceCall
        /\ saveArg = None
        /\ rows = before

C1_Witness ==
    /\ op = "edit"
    /\ validate(arg.dto) = <<"name", "title">>
    /\ isUUID(arg.uuid)
    /\ IsSome(rows[arg.uuid])
    /\ ret.kind = "throw"

\* C2: a create whose DTO is valid and whose hook does not fail calls
\* buildPartial exactly once, hands the partial entity it produced to
\* repository.save exactly once, and resolves to the entity save resolved
\* to (and fails when save fails).
C2_CreatePersistsOnce ==
    (op = "create" /\ Valid(arg.dto) /\ arg.fault \notin HookFaults) =>
        /\ Count("buildPartial") = 1
        /\ arg.fault # "build" =>
              /\ Count("save") = 1
              /\ IsSome(built)
              /\ saveArg = built
              /\ IF IsSome(saveRet)
                 THEN ret = Resolved(Val(saveRet))
                 ELSE ret.kind = "throw"

C2_Witness ==
    /\ op = "create"
    /\ Valid(arg.dto)
    /\ Count("save") = 1
    /\ IsSome(saveRet)
    /\ ret = Resolved(Val(saveRet))
    /\ Stored(rows) # Stored(before)

\* C3: the entity edit(uuid, dto) hands to repository.save has uuid as its
\* identity, whatever identity the partial entity from buildPartial had,
\* and its other fields are that partial entity's; edit calls save once.
C3_EditForcesIdentity ==
    /\ op = "edit" => Count("save") <= 1
    /\ (op = "edit" /\ Valid(arg.dto) /\ arg.fault \notin (HookFaults \cup {"build"})) =>
          /\ Count("save") = 1
          /\ IsSome(built)
          /\ IsSome(saveArg)
          /\ Val(built).uuid = arg.pid
          /\ Val(saveArg).uuid = Some(arg.uuid)
          /\ Val(saveArg).name = Val(built).name
          /\ Val(saveArg).title = Val(built).title

C3_Witness ==
    /\ op = "edit"
    /\ IsSome(built)
    /\ IsSome(Val(built).uuid)
    /\ Val(Val(built).uuid) # arg.uuid
    /\ IsSome(saveRet)
    /\ Val(saveRet).uuid = arg.uuid
    /\ ret.kind = "entity"

\* C4: get of an identifier that is not a UUID resolves to null without any
\* call to the persistence layer; get of a UUID makes one findOneBy call
\* with that identifier and, when the call succeeds, resolves to the record
\* the query sees under it, or to null when there is none.
C4_GetMalformedIsAbsent ==
    op = "get" =>
        IF ~isUUID(arg.uuid)
        THEN ret = Null /\ calls = <<>>
        ELSE /\ calls = <<Call("findOneBy", Some(arg.uuid))>>
             /\ arg.fault = "none" =>
                   IF IsSome(rows[arg.uuid]) /\ ~Val(rows[arg.uuid]).deleted
                   THEN ret = Resolved(Entity(arg.uuid, Val(rows[arg.uuid])))
                   ELSE ret = Null

C4_Witness ==
    /\ op = "get"
    /\ ~isUUID(arg.uuid)
    /\ ret = Null
    /\ Stored(rows) # {}

\* C5: a remove that the persistence layer answers marks the record
\* deleted and keeps it stored, returns affected 1 when a record had the
\* uuid and 0 when none had, leaves every other record as it was, and a
\* get of the uuid afterwards finds nothing.
C5_RemoveIsSoftDelete ==
    (op = "remove" /\ arg.fault = "none") =>
        LET existed == isUUID(arg.uuid) /\ IsSome(before[arg.uuid])
        IN /\ ret = Affected(IF existed THEN 1 ELSE 0)
           /\ Stored(before) \subseteq Stored(rows)
           /\ existed => rows[arg.uuid] = Some([Val(before[arg.uuid]) EXCEPT !.deleted = TRUE])
           /\ \A u \in Uuids : u # arg.uuid => rows[u] = before[u]
           /\ isUUID(arg.uuid) => findOneBy(rows, arg.uuid) = None

C5_Witness ==
    /\ op = "remove"
    /\ ret = Affected(1)
    /\ IsSome(rows[arg.uuid])
    /\ Val(rows[arg.uuid]).deleted
    /\ ~Val(before[arg.uuid]).deleted

C8_PaginatedResponse ==
    (op = "filter" /\ arg.fault = "none") =>
        LET o == arg.opts
            where == IF IsSome(query) /\ IsSome(Val(query).where)
                     THEN Val(Val(query).where) ELSE {}
        IN /\ calls = <<Call("findAndCount", None)>>
           /\ ret.kind = "page"
           /\ ret.data = findAndCount(rows, query).data
           /\ ret.total = Cardinality(Matching(rows, where))
           /\ ret.limit = (IF IsSome(o) THEN Val(o).take ELSE None)
           /\ ret.offset = (IF IsSome(o) THEN Val(o).skip ELSE None)

C8_Witness ==
    /\ op = "filter"
    /\ IsSome(arg.opts)
    /\ Val(arg.opts).search = Some(<<"a", "n">>)
    /\ Val(arg.opts).searchFields = Some(<<"name">>)
    /\ ret.kind = "page"
    /\ ret.limit = Some(2)
    /\ ret.offset = Some(1)
    /\ ret.total = 2
    /\ Len(ret.data) = 1

\* C9: create and edit call validate, the hook (validateBeforeEdit with the
\* uuid), buildPartial and save in that order, each at most once; a failure
\* of the hook ends the call before buildPartial and save, a failure of
\* buildPartial ends it before save, and the caller gets the very failure
\* that was raised, with the stored records untouched.
C9_PipelineOrder ==
    op \in {"create", "edit"} =>
        LET hookCall == IF op = "create"
                        THEN Call("validateBeforeCreate", None)
                        ELSE Call("validateBeforeEdit", Some(arg.uuid))
            full == <<Call("validate", None), hookCall,
                      Call("buildPartial", None), Call("save", None)>>
        IN /\ IsPrefix(calls, full)
           /\ Len(calls) >= 1
           /\ (Valid(arg.dto) /\ arg.fault \in HookFaults) =>
                 /\ Len(calls) = 2
                 /\ built = None
                 /\ saveArg = None
                 /\ ret = Thrown(FaultError(arg.fault))
                 /\ rows = before
           /\ (Valid(arg.dto) /\ arg.fault = "build") =>
                 /\ Len(calls) = 3
                 /\ saveArg = None
                 /\ ret = Thrown(FaultError("build"))
                 /\ rows = before
           /\ (Valid(arg.dto) /\ arg.fault = "db") =>
                 /\ Len(calls) = 4
                 /\ ret = Thrown(FaultError("db"))
                 /\ rows = before

C9_Witness ==
    /\ op = "edit"
    /\ Valid(arg.dto)
    /\ arg.fault = "hookB"
    /\ calls = <<Call("validate", None), Call("validateBeforeEdit", Some(arg.uuid))>>
    /\ ret = Thrown(FaultError("hookB"))
    /\ Stored(rows) # {}

\* C7: save(model) makes one repository.save call and returns the
\* persisted entity that call produced.
C7_SaveReturnsPersisted ==
    (op = "save" /\ IsSome(saveRet)) =>
        /\ Count("save") = 1
        /\ saveArg = Some(arg.model)
        /\ ret = Resolved(Val(saveRet))

\* C10: after filter(options) the caller's options object has the where
\* and the search it had before the call, and a second filter with the same
\* object sends the query the first one sent.
C10_FilterLeavesOptions ==
    (op = "filter" /\ ret.kind = "page") =>
        /\ callerOpts = arg.opts
        /\ IsSome(prevQuery) => query = Val(prevQuery)

====
